---------------------------- MODULE Spec2Model ----------------------------
(***************************************************************************)
(* Screen registry, layout catalog and image store of kitchen-web.         *)
(*                                                                         *)
(* Strings are modelled as sequences of one-character strings, so that     *)
(* prefix tests, URL parsing and path normalisation are computed the way   *)
(* the code computes them.  A nullable column holds either Null or such a  *)
(* sequence.                                                               *)
(*                                                                         *)
(* The relational store is the database-backed screenRouter and            *)
(* layoutRouter over SQLite: one statement is one step, a db.$transaction  *)
(* is a sequence of steps whose writes other connections see only at the   *)
(* commit.  Two clients call the procedures: the admin page, which calls   *)
(* everything, and a viewer, which polls getAll and getUpdates.  The       *)
(* tv.createdAt column is never read and is left out.  The image store's   *)
(* procedures are each one step of the admin, the serving route one step   *)
(* of the viewer; uuidv4() is taken never to return the same value twice.  *)
(* The in-memory screenRouter of an earlier revision is not modelled.      *)
(***************************************************************************)
EXTENDS Integers, Sequences, FiniteSets, TLC

VARIABLES
    tv,         \* table "tv": id -> [position, imageUrl, updatedAt]
    layout,     \* table "layout": id -> [name, tv1Url, tv2Url, tv3Url]
    now,        \* the database clock (milliseconds, abstracted to ticks)
    nanoids,    \* how many layout ids nanoid() has produced
    calls,      \* per client: how many procedure calls it has started
    pc,         \* per client: the statement its current call is at
    arg,        \* per client: the input of its current call
    loc,        \* per client: the locals of its current call
    res,        \* per client: the response of its last finished call
    files,      \* the filesystem: absolute path of a file -> [mtime]
    dirExists,  \* whether the image directory exists
    uuids,      \* how many names uuidv4() has produced
    issued,     \* history: the (name, originalName) pairs upload has returned
    triggerReload,         \* the module variable triggerReload
    triggerReloadTimeout,  \* the module variable triggerReloadTimeout: a timer handle or NoTimeout
    timers,     \* the timers setTimeout has created: [id, remaining, state]
    timerIds,   \* how many timers setTimeout has created
    elapsed     \* history: the time since the last setTriggerReload(true), up to ReloadDelay

imgVars == <<files, dirExists, uuids, issued>>

sigVars == <<triggerReload, triggerReloadTimeout, timers, timerIds, elapsed>>

vars == <<tv, layout, now, nanoids, calls, pc, arg, loc, res, files, dirExists, uuids, issued,
          triggerReload, triggerReloadTimeout, timers, timerIds, elapsed>>

-----------------------------------------------------------------------------
(* Bounds *)

\* Events of one behaviour: procedure calls started plus ticks of the clock.
MaxEvents == 3

\* The 5000 ms of the revert timer, in steps of 2500 ms.
ReloadDelay == 2

-----------------------------------------------------------------------------
(* Strings *)

\* SQL NULL / JavaScript null in a nullable string column or input.
Null == << "<null>" >>

Str_empty == << >>
Str_a_png == << "/", "a", ".", "p", "n", "g" >>
Str_b_png == << "/", "b", ".", "p", "n", "g" >>
Str_not_a_url == << "n", "o", "t", " ", "a", " ", "u", "r", "l" >>
Str_https == << "h", "t", "t", "p", "s", ":", "/", "/", "e", ".", "c", "o", "/", "x", ".", "p", "n", "g" >>
Str_nohost == << "h", "t", "t", "p", ":", "/", "/" >>
Str_opaque == << "x", ":", "y" >>
Str_noslash == << "a", ".", "p", "n", "g" >>
Str_name == << "E", "v", "e" >>

Lower == {"a","b","c","d","e","f","g","h","i","j","k","l","m","n","o","p","q","r","s","t","u","v","w","x","y","z"}
Upper == {"A","B","C","D","E","F","G","H","I","J","K","L","M","N","O","P","Q","R","S","T","U","V","W","X","Y","Z"}
Digit == {"0","1","2","3","4","5","6","7","8","9"}
Alpha == Lower \cup Upper

\* String.prototype.startsWith
StartsWith(s, prefix) ==
    /\ Len(prefix) <= Len(s)
    /\ SubSeq(s, 1, Len(prefix)) = prefix

\* Index of the first element of s that is in set cs, 0 when there is none.
FirstIn(s, cs) ==
    IF \E i \in 1..Len(s) : s[i] \in cs
    THEN CHOOSE i \in 1..Len(s) : s[i] \in cs /\ \A j \in 1..(i-1) : s[j] \notin cs
    ELSE 0

\* The part of s after its first n elements.
Drop(s, n) == SubSeq(s, n + 1, Len(s))

RECURSIVE TrimLeft(_)
TrimLeft(s) == IF s # << >> /\ Head(s) = " " THEN TrimLeft(Tail(s)) ELSE s

RECURSIVE TrimRight(_)
TrimRight(s) ==
    IF s # << >> /\ s[Len(s)] = " " THEN TrimRight(SubSeq(s, 1, Len(s) - 1)) ELSE s

RECURSIVE SkipSlashes(_)
SkipSlashes(s) ==
    IF s # << >> /\ Head(s) \in {"/", "\\"} THEN SkipSlashes(Tail(s)) ELSE s


-----------------------------------------------------------------------------
(* URL validation *)

SpecialSchemes == { <<"h","t","t","p">>, <<"h","t","t","p","s">>, <<"f","t","p">>,
                    <<"w","s">>, <<"w","s","s">> }
FileScheme == <<"f","i","l","e">>

\* Code points that may not occur in a host.
ForbiddenHost == {" ", "#", "/", "<", ">", "?", "@", "[", "\\", "]", "^", "|", "%"}

\* The scheme of s (lower-cased letters are the only ones the inputs use):
\* letters, digits, "+", "-", "." up to the first ":", starting with a letter.
\* << >> when s has no scheme.
SchemeOf(s) ==
    LET colon == FirstIn(s, {":"}) IN
    IF /\ colon > 1
       /\ s[1] \in Alpha
       /\ \A i \in 1..(colon - 1) : s[i] \in Alpha \cup Digit \cup {"+", "-", "."}
    THEN SubSeq(s, 1, colon - 1)
    ELSE << >>

\* host[:port] of an authority is acceptable.
HostOk(auth, mayBeEmpty) ==
    LET colon == FirstIn(auth, {":"})
        host == IF colon = 0 THEN auth ELSE SubSeq(auth, 1, colon - 1)
        port == IF colon = 0 THEN << >> ELSE Drop(auth, colon)
    IN  /\ mayBeEmpty \/ host # << >>
        /\ \A i \in 1..Len(host) : host[i] \notin ForbiddenHost
        /\ \A i \in 1..Len(port) : port[i] \in Digit

\* The authority of rest: everything up to the first "/", "\", "?" or "#".
AuthorityOf(rest) ==
    LET stop == FirstIn(rest, {"/", "\\", "?", "#"}) IN
    IF stop = 0 THEN rest ELSE SubSeq(rest, 1, stop - 1)

\* new URL(val) does not throw: val parses as an absolute URL without a base.
ParsesAsURL(val) ==
    LET s == TrimRight(TrimLeft(val))
        scheme == SchemeOf(s)
        rest == Drop(s, Len(scheme) + 1)
    IN  /\ scheme # << >>
        /\ IF scheme \in SpecialSchemes
           THEN HostOk(AuthorityOf(SkipSlashes(rest)), FALSE)
           ELSE IF scheme = FileScheme
           THEN TRUE
           ELSE IF StartsWith(rest, <<"/", "/">>)
           THEN HostOk(AuthorityOf(Drop(rest, 2)), TRUE)
           ELSE TRUE

\* UpdateImageUrlAccepts without the clause for the empty string.
UpdateImageUrlAcceptsNonEmpty(val) ==
    \/ val = Null
    \/ ParsesAsURL(val)
    \/ StartsWith(val, <<"/">>)

\* updateImage's imageUrl schema: z.string().refine(...).nullable()
UpdateImageUrlAccepts(val) ==
    \/ val = Null
    \/ val = << >>
    \/ ParsesAsURL(val)
    \/ StartsWith(val, <<"/">>)

\* layoutRouter.save's tvNUrl schema: z.string().nullable()
LayoutUrlAccepts(val) == TRUE

\* layoutRouter.save's and updateName's name schema: z.string().min(1)
LayoutNameAccepts(name) == Len(name) >= 1

\* The rule the data model states for an image reference.
IsImageRef(val) ==
    \/ val = Null
    \/ ParsesAsURL(val)
    \/ StartsWith(val, <<"/">>)

-----------------------------------------------------------------------------
(* The relational store *)

\* The admin client issues every procedure; the viewer client only polls.
Procs == {"admin", "viewer"}

\* The ids initializeTVs creates.
SeedIds == {"1", "2", "3"}

\* An id no row has.
UnknownId == "9"

\* DefaultImage without the id interpolated: the path of screen "1".
DefaultImageOfFirst(id) == << "/", "i", "m", "a", "g", "e", "1", ".", "p", "n", "g" >>

\* `/image${id}.png`
DefaultImage(id) == << "/", "i", "m", "a", "g", "e", id, ".", "p", "n", "g" >>

\* new Date(0)
Epoch == 0

EmptyTable == [i \in {} |-> 0]

\* SeedRows with the default image path built without the id.
SeedRowsNoId(t) ==
    [i \in SeedIds |->
        [position |-> CASE i = "1" -> 1 [] i = "2" -> 2 [] i = "3" -> 3,
         imageUrl |-> << "/", "i", "m", "a", "g", "e", ".", "p", "n", "g" >>,
         updatedAt |-> t]]

\* The rows db.tv.createMany inserts at time t (updatedAt is set by @updatedAt).
SeedRows(t) ==
    [i \in SeedIds |->
        [position |-> CASE i = "1" -> 1 [] i = "2" -> 2 [] i = "3" -> 3,
         imageUrl |-> DefaultImage(i),
         updatedAt |-> t]]

\* The rows of a table as records carrying their id.
Rows(table) ==
    { [id |-> i, position |-> table[i].position, imageUrl |-> table[i].imageUrl,
       updatedAt |-> table[i].updatedAt] : i \in DOMAIN table }

\* OrderedByPosition with the order descending.
OrderedByPositionDesc(S) ==
    LET n == Cardinality(S) IN
    { s \in [1..n -> S] :
        /\ \A i, j \in 1..n : i # j => s[i] # s[j]
        /\ \A i, j \in 1..n : i < j => s[i].position >= s[j].position }

\* Every order of the rows S that is ascending by position (ORDER BY position
\* ASC leaves the order of rows of equal position to the engine).
OrderedByPosition(S) ==
    LET n == Cardinality(S) IN
    { s \in [1..n -> S] :
        /\ \A i, j \in 1..n : i # j => s[i] # s[j]
        /\ \A i, j \in 1..n : i < j => s[i].position <= s[j].position }

\* ApplyUpdate without the @updatedAt stamp.
ApplyUpdateUnstamped(table, stmt, t) ==
    IF stmt.id \notin DOMAIN table
    THEN table
    ELSE [table EXCEPT ![stmt.id] =
            IF stmt.field = "position"
            THEN [@ EXCEPT !.position = stmt.value]
            ELSE [@ EXCEPT !.imageUrl = stmt.value]]

\* One db.tv.update({where: {id}, data}) applied to a table at time t.
\* (UPDATE ... WHERE id = ? changes no row when no row has the id.)
ApplyUpdate(table, stmt, t) ==
    IF stmt.id \notin DOMAIN table
    THEN table
    ELSE [table EXCEPT ![stmt.id] =
            IF stmt.field = "position"
            THEN [@ EXCEPT !.position = stmt.value, !.updatedAt = t]
            ELSE [@ EXCEPT !.imageUrl = stmt.value, !.updatedAt = t]]

\* UpdateFound with a missing record skipped instead of reported.
UpdateFoundAlways(table, id) == TRUE

\* db.tv.update finds the record it is to update; it throws when it does not.
UpdateFound(table, id) == id \in DOMAIN table

\* VisibleDuringTx with every statement committed on its own.
VisibleDuringTxDirty(committed, working) == working

\* What other connections see of a table while a transaction that has
\* written `working` is open: the committed rows only.
VisibleDuringTx(committed, working) == committed

\* RolledBack with the statements already run kept.
RolledBackPartial(committed, working) == working

\* The table after a transaction that has written `working` is rolled back.
RolledBack(committed, working) == committed

\* updateOrder's transaction: one position update per input element.
OrderStatements(updates) ==
    [k \in 1..Len(updates) |->
        [id |-> updates[k].id, field |-> "position", value |-> updates[k].position]]

\* resetAllImages' transaction.
ResetStatements ==
    << [id |-> "1", field |-> "imageUrl", value |-> DefaultImage("1")],
       [id |-> "2", field |-> "imageUrl", value |-> DefaultImage("2")],
       [id |-> "3", field |-> "imageUrl", value |-> DefaultImage("3")] >>

\* RestoreStatements with the first two slots exchanged.
RestoreStatementsSwapped(l) ==
    << [id |-> "1", field |-> "imageUrl", value |-> l.tv2Url],
       [id |-> "2", field |-> "imageUrl", value |-> l.tv1Url],
       [id |-> "3", field |-> "imageUrl", value |-> l.tv3Url] >>

\* restore's transaction for a layout row.
RestoreStatements(l) ==
    << [id |-> "1", field |-> "imageUrl", value |-> l.tv1Url],
       [id |-> "2", field |-> "imageUrl", value |-> l.tv2Url],
       [id |-> "3", field |-> "imageUrl", value |-> l.tv3Url] >>

NoArg == [op |-> "none"]
NoLoc == [n |-> 0, k |-> 0, stmts |-> << >>, buf |-> EmptyTable]
NoRes == [op |-> "none", status |-> "none", rows |-> << >>]

\* A client holds the database write lock while its transaction is open.
InTx(p) == pc[p] = "tx" /\ loc[p].k > 0
WriteLockFree(p) == \A q \in Procs \ {p} : ~InTx(q)

Respond(p, op, status, rows) ==
    /\ res' = [res EXCEPT ![p] = [op |-> op, status |-> status, rows |-> rows]]
    /\ pc' = [pc EXCEPT ![p] = "idle"]

\* A call begins: the client is idle and the call budget is not used up.
Events == calls["admin"] + calls["viewer"] + (now - 1)

Begin(p, a) ==
    /\ pc[p] = "idle"
    /\ Events < MaxEvents
    /\ calls' = [calls EXCEPT ![p] = @ + 1]
    /\ arg' = [arg EXCEPT ![p] = a]

-----------------------------------------------------------------------------
(* Inputs *)

\* The batches updateOrder is called with.
ReorderInputs ==
    { << [id |-> "1", position |-> 3], [id |-> "2", position |-> 1], [id |-> "3", position |-> 2] >>,
      << [id |-> "1", position |-> 2], [id |-> UnknownId, position |-> 1] >>,
      << [id |-> "2", position |-> 3] >>,
      << >> }

\* The imageUrl values updateImage is called with.
UrlInputs ==
    { Null, Str_empty, Str_a_png, Str_https, Str_opaque,
      Str_not_a_url, Str_nohost, Str_noslash }

\* The ids updateImage and resetImage are called with.
IdInputs == SeedIds \cup {UnknownId}

\* The (name, tv1Url, tv2Url, tv3Url) values save is called with.
SaveInputs ==
    { [name |-> Str_name, tv1Url |-> Str_a_png, tv2Url |-> Str_b_png, tv3Url |-> Null],
      [name |-> Str_name, tv1Url |-> Str_not_a_url, tv2Url |-> Null, tv3Url |-> Str_https],
      [name |-> Str_empty, tv1Url |-> Str_a_png, tv2Url |-> Str_b_png, tv3Url |-> Null],
      [name |-> Str_empty, tv1Url |-> Null, tv2Url |-> Str_noslash, tv3Url |-> Null] }

\* The names updateName is called with.
NameInputs == { Str_empty, << "N" >> }

-----------------------------------------------------------------------------
(* Screen registry: screenRouter *)

\* getAll: the call arrives.
GetAllBegin(p) ==
    /\ Begin(p, [op |-> "getAll"])
    /\ pc' = [pc EXCEPT ![p] = "count"]
    /\ loc' = [loc EXCEPT ![p] = NoLoc]
    /\ UNCHANGED <<tv, layout, now, nanoids, res, imgVars, sigVars>>

\* initializeTVs: const existingTVs = await db.tv.count(); if (existingTVs === 0)
Count(p) ==
    /\ pc[p] = "count"
    /\ LET existingTVs == Cardinality(DOMAIN tv) IN
        /\ loc' = [loc EXCEPT ![p].n = existingTVs]
        /\ pc' = [pc EXCEPT ![p] = IF existingTVs = 0 THEN "createMany" ELSE "findMany"]
    /\ UNCHANGED <<tv, layout, now, nanoids, calls, arg, res, imgVars, sigVars>>

\* initializeTVs: await db.tv.createMany({data: [...]}).  One INSERT of three
\* rows: it fails as a whole on the primary key when a seed id already exists.
CreateMany(p) ==
    /\ pc[p] = "createMany"
    /\ WriteLockFree(p)
    /\ IF DOMAIN tv \cap SeedIds # {}
       THEN /\ Respond(p, arg[p].op, "UniqueConstraint", << >>)
            /\ UNCHANGED tv
       ELSE /\ tv' = SeedRows(now)
            /\ pc' = [pc EXCEPT ![p] = "findMany"]
            /\ UNCHANGED res
    /\ UNCHANGED <<layout, now, nanoids, calls, arg, loc, imgVars, sigVars>>

\* return await db.tv.findMany({orderBy: {position: "asc"}})
FindMany(p) ==
    /\ pc[p] = "findMany"
    /\ \E rows \in OrderedByPosition(Rows(tv)) : Respond(p, arg[p].op, "ok", rows)
    /\ loc' = [loc EXCEPT ![p] = NoLoc]
    /\ UNCHANGED <<tv, layout, now, nanoids, calls, arg, imgVars, sigVars>>

\* updateOrder: the call arrives with its batch.
UpdateOrderBegin(p) ==
    \E updates \in ReorderInputs :
        /\ Begin(p, [op |-> "updateOrder", updates |-> updates])
        /\ pc' = [pc EXCEPT ![p] = "tx"]
        /\ loc' = [loc EXCEPT ![p] = [NoLoc EXCEPT !.stmts = OrderStatements(updates)]]
        /\ UNCHANGED <<tv, layout, now, nanoids, res, imgVars, sigVars>>

\* db.$transaction([...]): the next update of the batch runs inside the
\* transaction.  An update of a missing row throws and the transaction is
\* rolled back.
TxUpdate(p) ==
    /\ pc[p] = "tx"
    /\ loc[p].k < Len(loc[p].stmts)
    /\ WriteLockFree(p)
    /\ LET base == IF loc[p].k = 0 THEN tv ELSE loc[p].buf
           stmt == loc[p].stmts[loc[p].k + 1]
       IN  IF UpdateFound(base, stmt.id)
           THEN LET working == ApplyUpdate(base, stmt, now) IN
                /\ loc' = [loc EXCEPT ![p].k = @ + 1, ![p].buf = working]
                /\ tv' = VisibleDuringTx(tv, working)
                /\ UNCHANGED <<pc, res>>
           ELSE /\ tv' = RolledBack(tv, base)
                /\ loc' = [loc EXCEPT ![p] = NoLoc]
                /\ Respond(p, arg[p].op, "NotFound", << >>)
    /\ UNCHANGED <<layout, now, nanoids, calls, arg, imgVars, sigVars>>

\* The store fails while the transaction is open: it is rolled back.
TxFail(p) ==
    /\ InTx(p)
    /\ tv' = RolledBack(tv, loc[p].buf)
    /\ loc' = [loc EXCEPT ![p] = NoLoc]
    /\ Respond(p, arg[p].op, "StorageFailure", << >>)
    /\ UNCHANGED <<layout, now, nanoids, calls, arg, imgVars, sigVars>>

\* Every update of the batch has run: the transaction commits.
TxCommit(p) ==
    /\ pc[p] = "tx"
    /\ loc[p].k = Len(loc[p].stmts)
    /\ tv' = IF loc[p].k = 0 THEN tv ELSE loc[p].buf
    /\ pc' = [pc EXCEPT ![p] = "findMany"]
    /\ loc' = [loc EXCEPT ![p] = NoLoc]
    /\ UNCHANGED <<layout, now, nanoids, calls, arg, res, imgVars, sigVars>>

\* updateImage({id, imageUrl})
UpdateImage(p, urls) ==
    \E id \in IdInputs, url \in urls :
        /\ Begin(p, [op |-> "updateImage", id |-> id, imageUrl |-> url])
        /\ WriteLockFree(p)
        /\ IF ~UpdateImageUrlAccepts(url)
           THEN Respond(p, "updateImage", "ValidationError", << >>) /\ UNCHANGED tv
           ELSE IF ~UpdateFound(tv, id)
           THEN Respond(p, "updateImage", "NotFound", << >>) /\ UNCHANGED tv
           ELSE /\ tv' = ApplyUpdate(tv, [id |-> id, field |-> "imageUrl", value |-> url], now)
                /\ Respond(p, "updateImage", "ok", << >>)
        /\ UNCHANGED <<layout, now, nanoids, loc, imgVars, sigVars>>

\* resetImage({id})
ResetImage(p) ==
    \E id \in IdInputs :
        /\ Begin(p, [op |-> "resetImage", id |-> id])
        /\ WriteLockFree(p)
        /\ IF ~UpdateFound(tv, id)
           THEN Respond(p, "resetImage", "NotFound", << >>) /\ UNCHANGED tv
           ELSE /\ tv' = ApplyUpdate(tv, [id |-> id, field |-> "imageUrl", value |-> DefaultImage(id)], now)
                /\ Respond(p, "resetImage", "ok", << >>)
        /\ UNCHANGED <<layout, now, nanoids, loc, imgVars, sigVars>>

\* resetAllImages: the call arrives.
ResetAllBegin(p) ==
    /\ Begin(p, [op |-> "resetAllImages"])
    /\ pc' = [pc EXCEPT ![p] = "updateMany"]
    /\ loc' = [loc EXCEPT ![p] = NoLoc]
    /\ UNCHANGED <<tv, layout, now, nanoids, res, imgVars, sigVars>>

\* await db.tv.updateMany({data: {}}) -- "Empty data object to trigger
\* updatedAt".  Whether the client writes updatedAt for an empty data object
\* is the client library's choice: both outcomes are modelled.
UpdateMany(p) ==
    /\ pc[p] = "updateMany"
    /\ WriteLockFree(p)
    /\ \E touches \in BOOLEAN :
        tv' = IF touches THEN [i \in DOMAIN tv |-> [tv[i] EXCEPT !.updatedAt = now]] ELSE tv
    /\ pc' = [pc EXCEPT ![p] = "tx"]
    /\ loc' = [loc EXCEPT ![p] = [NoLoc EXCEPT !.stmts = ResetStatements]]
    /\ UNCHANGED <<layout, now, nanoids, calls, arg, res, imgVars, sigVars>>

\* UpdatedAfter with the comparison turned round.
UpdatedBefore(table, lastCheck) == {r \in Rows(table) : r.updatedAt < lastCheck}

\* UpdatedAfter with the cutoff itself included.
UpdatedAfterOrAt(table, lastCheck) == {r \in Rows(table) : r.updatedAt >= lastCheck}

\* where: {updatedAt: {gt: lastCheck}}
UpdatedAfter(table, lastCheck) == {r \in Rows(table) : r.updatedAt > lastCheck}

\* getUpdates(input): const lastCheck = input || new Date(0)
GetUpdates(p) ==
    \E given \in BOOLEAN, at \in Epoch..now :
        /\ given \/ at = Epoch
        /\ Begin(p, [op |-> "getUpdates", given |-> given, at |-> at])
        /\ LET lastCheck == IF given THEN at ELSE Epoch IN
           \E rows \in OrderedByPosition(UpdatedAfter(tv, lastCheck)) :
               Respond(p, "getUpdates", "ok", rows)
        /\ UNCHANGED <<tv, layout, now, nanoids, loc, imgVars, sigVars>>

-----------------------------------------------------------------------------
(* Layout catalog: layoutRouter *)

\* save({name, tv1Url, tv2Url, tv3Url}); the new row's id is nanoid().
Save(p) ==
    \E in \in SaveInputs :
        /\ Begin(p, [op |-> "save", input |-> in])
        /\ WriteLockFree(p)
        /\ IF /\ LayoutNameAccepts(in.name)
              /\ LayoutUrlAccepts(in.tv1Url)
              /\ LayoutUrlAccepts(in.tv2Url)
              /\ LayoutUrlAccepts(in.tv3Url)
           THEN /\ nanoids' = nanoids + 1
                /\ layout' = (nanoids + 1 :> [name |-> in.name, tv1Url |-> in.tv1Url,
                                               tv2Url |-> in.tv2Url, tv3Url |-> in.tv3Url,
                                               createdAt |-> now, updatedAt |-> now]) @@ layout
                /\ Respond(p, "save", "ok", << nanoids + 1 >>)
           ELSE /\ Respond(p, "save", "ValidationError", << >>)
                /\ UNCHANGED <<layout, nanoids>>
        /\ UNCHANGED <<tv, now, loc, imgVars, sigVars>>

\* restore({id}): the call arrives.
RestoreBegin(p) ==
    \E id \in 1..(nanoids + 1) :
        /\ Begin(p, [op |-> "restore", id |-> id])
        /\ pc' = [pc EXCEPT ![p] = "findUnique"]
        /\ loc' = [loc EXCEPT ![p] = NoLoc]
        /\ UNCHANGED <<tv, layout, now, nanoids, res, imgVars, sigVars>>

\* FindUnique that also stamps the layout it has read.
FindUniqueStamping(p) ==
    /\ pc[p] = "findUnique"
    /\ IF arg[p].id \in DOMAIN layout
       THEN /\ loc' = [loc EXCEPT ![p] = [NoLoc EXCEPT !.stmts = RestoreStatements(layout[arg[p].id])]]
            /\ pc' = [pc EXCEPT ![p] = "tx"]
            /\ layout' = [layout EXCEPT ![arg[p].id].updatedAt = now]
            /\ UNCHANGED res
       ELSE /\ Respond(p, "restore", "NotFound", << >>)
            /\ UNCHANGED <<loc, layout>>
    /\ UNCHANGED <<tv, now, nanoids, calls, arg, imgVars, sigVars>>

\* const layout = await db.layout.findUnique(...); if (!layout) throw
FindUnique(p) ==
    /\ pc[p] = "findUnique"
    /\ IF arg[p].id \in DOMAIN layout
       THEN /\ loc' = [loc EXCEPT ![p] = [NoLoc EXCEPT !.stmts = RestoreStatements(layout[arg[p].id])]]
            /\ pc' = [pc EXCEPT ![p] = "tx"]
            /\ UNCHANGED res
       ELSE /\ Respond(p, "restore", "NotFound", << >>)
            /\ UNCHANGED loc
    /\ UNCHANGED <<tv, layout, now, nanoids, calls, arg, imgVars, sigVars>>

\* delete({id})
LayoutDelete(p) ==
    \E id \in 1..(nanoids + 1) :
        /\ Begin(p, [op |-> "delete", id |-> id])
        /\ WriteLockFree(p)
        /\ IF id \in DOMAIN layout
           THEN /\ layout' = [i \in DOMAIN layout \ {id} |-> layout[i]]
                /\ Respond(p, "delete", "ok", << >>)
           ELSE /\ Respond(p, "delete", "NotFound", << >>)
                /\ UNCHANGED layout
        /\ UNCHANGED <<tv, now, nanoids, loc, imgVars, sigVars>>

\* UpdateName as an upsert: a missing layout is created.
UpdateNameUpserting(p) ==
    \E id \in 1..(nanoids + 1), name \in NameInputs :
        /\ Begin(p, [op |-> "updateName", id |-> id, name |-> name])
        /\ WriteLockFree(p)
        /\ IF ~LayoutNameAccepts(name)
           THEN Respond(p, "updateName", "ValidationError", << >>) /\ UNCHANGED layout
           ELSE IF id \notin DOMAIN layout
           THEN /\ layout' = (id :> [name |-> name, tv1Url |-> Null, tv2Url |-> Null,
                                      tv3Url |-> Null, createdAt |-> now, updatedAt |-> now]) @@ layout
                /\ Respond(p, "updateName", "ok", << >>)
           ELSE /\ layout' = [layout EXCEPT ![id].name = name, ![id].updatedAt = now]
                /\ Respond(p, "updateName", "ok", << >>)
        /\ UNCHANGED <<tv, now, nanoids, loc, imgVars, sigVars>>

\* updateName({id, name})
UpdateName(p) ==
    \E id \in 1..(nanoids + 1), name \in NameInputs :
        /\ Begin(p, [op |-> "updateName", id |-> id, name |-> name])
        /\ WriteLockFree(p)
        /\ IF ~LayoutNameAccepts(name)
           THEN Respond(p, "updateName", "ValidationError", << >>) /\ UNCHANGED layout
           ELSE IF id \notin DOMAIN layout
           THEN Respond(p, "updateName", "NotFound", << >>) /\ UNCHANGED layout
           ELSE /\ layout' = [layout EXCEPT ![id].name = name, ![id].updatedAt = now]
                /\ Respond(p, "updateName", "ok", << >>)
        /\ UNCHANGED <<tv, now, nanoids, loc, imgVars, sigVars>>

-----------------------------------------------------------------------------
(* Image store: imagesRouter *)

\* getDataDirectory() in production.
DataDir == << "/", "d", "a", "t", "a", "/", "i", "m", "a", "g", "e", "s" >>

\* IMAGE_EXTENSIONS
IMAGE_EXTENSIONS ==
    { << ".", "j", "p", "g" >>,
      << ".", "j", "p", "e", "g" >>,
      << ".", "p", "n", "g" >>,
      << ".", "g", "i", "f" >>,
      << ".", "w", "e", "b", "p" >>,
      << ".", "s", "v", "g" >>,
      << ".", "b", "m", "p" >> }

\* validMimeTypes
ValidMimeTypes ==
    { "image/jpeg", "image/jpg", "image/png", "image/gif", "image/webp",
      "image/svg+xml", "image/bmp" }

\* One character lower-cased.
LowerChar(c) ==
    CASE c = "A" -> "a" [] c = "B" -> "b" [] c = "C" -> "c" [] c = "D" -> "d" [] c = "E" -> "e" [] c = "F" -> "f"
         [] c = "G" -> "g" [] c = "H" -> "h" [] c = "I" -> "i" [] c = "J" -> "j" [] c = "K" -> "k" [] c = "L" -> "l"
         [] c = "M" -> "m" [] c = "N" -> "n" [] c = "O" -> "o" [] c = "P" -> "p" [] c = "Q" -> "q" [] c = "R" -> "r"
         [] c = "S" -> "s" [] c = "T" -> "t" [] c = "U" -> "u" [] c = "V" -> "v" [] c = "W" -> "w" [] c = "X" -> "x"
         [] c = "Y" -> "y" [] c = "Z" -> "z"
      [] OTHER -> c

\* String.prototype.toLowerCase
ToLowerCase(s) == [i \in 1..Len(s) |-> LowerChar(s[i])]

\* Index of the last element of s that equals c, 0 when there is none.
LastIndexOf(s, c) ==
    IF \E i \in 1..Len(s) : s[i] = c
    THEN CHOOSE i \in 1..Len(s) : s[i] = c /\ \A j \in (i+1)..Len(s) : s[j] # c
    ELSE 0

RECURSIVE StripTrailingSlashes(_)
StripTrailingSlashes(s) ==
    IF s # << >> /\ s[Len(s)] = "/"
    THEN StripTrailingSlashes(SubSeq(s, 1, Len(s) - 1))
    ELSE s

\* The last component of a path.
Basename(path) ==
    LET q == StripTrailingSlashes(path) IN Drop(q, LastIndexOf(q, "/"))

\* path.extname: from the last "." of the last component, "" when there is
\* none, when it is the component's first character, or for "..".
Extname(path) ==
    LET base == Basename(path)
        dot == LastIndexOf(base, ".")
    IN  IF dot <= 1 \/ base = << ".", "." >> THEN << >> ELSE Drop(base, dot - 1)

\* isImageFile(filename)
isImageFile(filename) == ToLowerCase(Extname(filename)) \in IMAGE_EXTENSIONS

\* The components of a path: the strings between its "/".
RECURSIVE Components(_)
Components(path) ==
    LET slash == FirstIn(path, {"/"}) IN
    IF slash = 0 THEN << path >>
    ELSE << SubSeq(path, 1, slash - 1) >> \o Components(Drop(path, slash))

\* normalizeString for an absolute path: "" and "." are dropped, ".." drops
\* the component before it and is dropped itself at the root.
RECURSIVE NormalizeComponents(_, _)
NormalizeComponents(comps, done) ==
    IF comps = << >> THEN done
    ELSE LET c == Head(comps) IN
         NormalizeComponents(Tail(comps),
             IF c = << >> \/ c = << "." >> THEN done
             ELSE IF c = << ".", "." >>
             THEN (IF done = << >> THEN done ELSE SubSeq(done, 1, Len(done) - 1))
             ELSE Append(done, c))

\* The components joined, each preceded by "/".
RECURSIVE Slashed(_)
Slashed(comps) ==
    IF comps = << >> THEN << >> ELSE << "/" >> \o Head(comps) \o Slashed(Tail(comps))

\* path.normalize of an absolute path.
Normalize(path) ==
    LET comps == NormalizeComponents(Components(path), << >>) IN
    IF comps = << >> THEN << "/" >>
    ELSE Slashed(comps) \o (IF path[Len(path)] = "/" THEN << "/" >> ELSE << >>)

\* path.join(dir, name) for an absolute dir.
PathJoin(dir, name) == Normalize(IF name = << >> THEN dir ELSE dir \o << "/" >> \o name)

\* path.resolve of an absolute path.
PathResolve(path) ==
    LET comps == NormalizeComponents(Components(path), << >>) IN
    IF comps = << >> THEN << "/" >> ELSE Slashed(comps)

\* The security check of delete and getByName:
\* resolvedPath.startsWith(resolvedDataDir)
PathAllowed(resolvedPath, resolvedDataDir) == StartsWith(resolvedPath, resolvedDataDir)

\* The name uuidv4() returns on its n-th call.
Uuid(n) == << "u", CASE n = 1 -> "1" [] n = 2 -> "2" [] n = 3 -> "3" [] n = 4 -> "4"
                     [] n = 5 -> "5" [] n = 6 -> "6" [] n = 7 -> "7" [] n = 8 -> "8"
                     [] OTHER -> "9" >>

\* generateUUIDFilename keeping the name the client sent.
generateOriginalFilename(originalName, n) == originalName

\* generateUUIDFilename(originalName) on the n-th call of uuidv4()
generateUUIDFilename(originalName, n) == Uuid(n) \o Extname(originalName)

\* Files on the volume when the server starts: two in the image directory,
\* one in a directory beside it, the database, and one outside the volume.
InitialFiles ==
    [f \in { << "/", "d", "a", "t", "a", "/", "i", "m", "a", "g", "e", "s", "/", "a", ".", "p", "n", "g" >>,
             << "/", "d", "a", "t", "a", "/", "i", "m", "a", "g", "e", "s", "/", "n", "o", "t", "e", "s", ".", "t", "x", "t" >>,
             << "/", "d", "a", "t", "a", "/", "i", "m", "a", "g", "e", "s", "-", "o", "l", "d", "/", "x", ".", "p", "n", "g" >>,
             << "/", "d", "a", "t", "a", "/", "d", "b", ".", "s", "q", "l", "i", "t", "e" >>,
             << "/", "e", "t", "c", "/", "p", "a", "s", "s", "w", "d" >> } |-> [mtime |-> 1]]

\* The names delete is called with.
DeleteInputs ==
    { << "a", ".", "p", "n", "g" >>,
      << "b", ".", "p", "n", "g" >>,
      << "n", "o", "t", "e", "s", ".", "t", "x", "t" >>,
      << ".", ".", "/", ".", ".", "/", "e", "t", "c", "/", "p", "a", "s", "s", "w", "d" >>,
      << ".", ".", "/", "i", "m", "a", "g", "e", "s", "-", "o", "l", "d", "/", "x", ".", "p", "n", "g" >>,
      << ".", ".", "/", "d", "b", ".", "s", "q", "l", "i", "t", "e" >>,
      Uuid(1) \o << ".", "p", "n", "g" >> }

\* The (filename, mimeType) values upload is called with.
UploadInputs ==
    { [filename |-> << "l", "o", "g", "o", ".", "p", "n", "g" >>, mimeType |-> "image/png"],
      [filename |-> << "l", "o", "g", "o", ".", "P", "N", "G" >>, mimeType |-> "image/png"],
      [filename |-> << "l", "o", "g", "o" >>, mimeType |-> "image/jpeg"],
      [filename |-> << "l", "o", "g", "o", ".", "p", "n", "g" >>, mimeType |-> "text/html"] }

\* How fs.writeFile can end: the file written, the file created but the
\* write failed, or the file not created.
WriteOutcomes == {"written", "partial", "refused"}

\* upload({filename, data, mimeType}).  Every error, the invalid type and a
\* failure of the filesystem alike, is caught and thrown again as "Failed to
\* upload image".
Upload(p) ==
    \E in \in UploadInputs, outcome \in WriteOutcomes :
        /\ Begin(p, [op |-> "images.upload", input |-> in])
        /\ dirExists' = TRUE
        /\ IF in.mimeType \notin ValidMimeTypes
           THEN /\ outcome = "written"
                /\ Respond(p, "images.upload", "Failed to upload image", << >>)
                /\ UNCHANGED <<files, uuids, issued>>
           ELSE LET uuidFilename == generateUUIDFilename(in.filename, uuids + 1)
                    filePath == PathJoin(DataDir, uuidFilename)
                IN  /\ uuids' = uuids + 1
                    /\ files' = IF outcome = "refused" THEN files
                                 ELSE (filePath :> [mtime |-> now]) @@ files
                    /\ IF outcome = "written"
                       THEN /\ issued' = issued \cup {[name |-> uuidFilename,
                                                        originalName |-> in.filename]}
                            /\ Respond(p, "images.upload", "ok", << uuidFilename >>)
                       ELSE /\ UNCHANGED issued
                            /\ Respond(p, "images.upload", "Failed to upload image", << >>)
        /\ UNCHANGED <<tv, layout, now, nanoids, loc, sigVars>>

\* delete({name}).  Every error is caught and thrown again as "Failed to
\* delete image".
Delete(p) ==
    \E name \in DeleteInputs :
        /\ Begin(p, [op |-> "images.delete", name |-> name])
        /\ LET filePath == PathJoin(DataDir, name)
               resolvedPath == PathResolve(filePath)
               resolvedDataDir == PathResolve(DataDir)
           IN  IF /\ PathAllowed(resolvedPath, resolvedDataDir)
                  /\ isImageFile(name)
                  /\ filePath \in DOMAIN files
               THEN /\ files' = [f \in DOMAIN files \ {filePath} |-> files[f]]
                    /\ Respond(p, "images.delete", "ok", << >>)
               ELSE /\ Respond(p, "images.delete", "Failed to delete image", << >>)
                    /\ UNCHANGED files
        /\ UNCHANGED <<tv, layout, now, nanoids, loc, dirExists, uuids, issued, sigVars>>

-----------------------------------------------------------------------------
(* Image serving: GET /api/images/[filename] *)

\* IMAGE_MIME_TYPES
IMAGE_MIME_TYPES ==
    [ext \in IMAGE_EXTENSIONS |->
        CASE ext = << ".", "j", "p", "g" >> -> "image/jpeg"
          [] ext = << ".", "j", "p", "e", "g" >> -> "image/jpeg"
          [] ext = << ".", "p", "n", "g" >> -> "image/png"
          [] ext = << ".", "g", "i", "f" >> -> "image/gif"
          [] ext = << ".", "w", "e", "b", "p" >> -> "image/webp"
          [] ext = << ".", "s", "v", "g" >> -> "image/svg+xml"
          [] ext = << ".", "b", "m", "p" >> -> "image/bmp"]

\* String.prototype.includes
Includes(s, sub) ==
    \E i \in 1..(Len(s) - Len(sub) + 1) : SubSeq(s, i, i + Len(sub) - 1) = sub

\* The route's isImageFile(filename): ext in IMAGE_MIME_TYPES
isImageFileRoute(filename) == ToLowerCase(Extname(filename)) \in DOMAIN IMAGE_MIME_TYPES

\* ServeOutcome with the extension checked before the traversal sequences.
ServeOutcomeExtensionFirst(filename, fs) ==
    LET filePath == PathJoin(DataDir, filename) IN
    IF ~isImageFileRoute(filename)
    THEN [status |-> "400", body |-> "File is not a valid image"]
    ELSE IF \/ Includes(filename, << ".", "." >>)
            \/ Includes(filename, << "/" >>)
            \/ Includes(filename, << "\\" >>)
    THEN [status |-> "400", body |-> "Invalid filename"]
    ELSE IF ~PathAllowed(PathResolve(filePath), PathResolve(DataDir))
    THEN [status |-> "400", body |-> "Invalid file path"]
    ELSE IF filePath \notin DOMAIN fs
    THEN [status |-> "404", body |-> "Image not found"]
    ELSE [status |-> "200", body |-> "fileBuffer"]

\* The status and body GET answers for a filename on the filesystem fs: the
\* first check that fails decides.
ServeOutcome(filename, fs) ==
    LET filePath == PathJoin(DataDir, filename) IN
    IF \/ Includes(filename, << ".", "." >>)
       \/ Includes(filename, << "/" >>)
       \/ Includes(filename, << "\\" >>)
    THEN [status |-> "400", body |-> "Invalid filename"]
    ELSE IF ~isImageFileRoute(filename)
    THEN [status |-> "400", body |-> "File is not a valid image"]
    ELSE IF ~PathAllowed(PathResolve(filePath), PathResolve(DataDir))
    THEN [status |-> "400", body |-> "Invalid file path"]
    ELSE IF filePath \notin DOMAIN fs
    THEN [status |-> "404", body |-> "Image not found"]
    ELSE [status |-> "200", body |-> "fileBuffer"]

\* The HTTP status GET answers for a filename on the filesystem fs.
ServeStatus(filename, fs) == ServeOutcome(filename, fs).status

\* The filenames GET is called with.
ServeInputs ==
    { << "a", ".", "p", "n", "g" >>,
      << "n", "o", "t", "e", "s", ".", "t", "x", "t" >>,
      << ".", ".", "/", "d", "b", ".", "s", "q", "l", "i", "t", "e" >>,
      << ".", ".", "/", "i", "m", "a", "g", "e", "s", "-", "o", "l", "d", "/", "x", ".", "p", "n", "g" >>,
      << "a", ".", ".", "p", "n", "g" >>,
      Uuid(1) \o << ".", "p", "n", "g" >>,
      Uuid(2) \o << ".", "p", "n", "g" >>,
      Uuid(1) \o << ".", "P", "N", "G" >>,
      Uuid(1) }

\* GET(request, {params}): the response's status and body, and for a 200 its
\* Content-Type and Last-Modified (the file's mtime).
Serve(p) ==
    \E filename \in ServeInputs :
        /\ Begin(p, [op |-> "serve", filename |-> filename])
        /\ LET outcome == ServeOutcome(filename, files) IN
           Respond(p, "serve", outcome.status,
                   IF outcome.status = "200"
                   THEN << outcome.body,
                           IMAGE_MIME_TYPES[ToLowerCase(Extname(filename))],
                           files[PathJoin(DataDir, filename)].mtime >>
                   ELSE << outcome.body >>)
        /\ UNCHANGED <<tv, layout, now, nanoids, loc, imgVars, sigVars>>

-----------------------------------------------------------------------------
(* Specification *)

\* `/api/images/${name}`: how the admin page refers to an image of the volume.
ApiImageUrl(name) == << "/", "a", "p", "i", "/", "i", "m", "a", "g", "e", "s", "/" >> \o name

\* The files of fs that are not inside directory dir.
FilesOutside(fs, dir) ==
    [f \in {g \in DOMAIN fs : ~StartsWith(g, dir \o << "/" >>)} |-> fs[f]]

\* fs.readdir(dataDir): the names of the entries directly inside the directory.
Readdir(fs, dir) ==
    {Basename(f) : f \in {g \in DOMAIN fs : g = dir \o << "/" >> \o Basename(g)}}

\* files.filter(isImageFile) with fs.stat of each: name and lastModified.
ImageFiles(fs) ==
    {[name |-> n, lastModified |-> fs[DataDir \o << "/" >> \o n].mtime] :
        n \in {m \in Readdir(fs, DataDir) : isImageFile(m)}}

\* SortedNewestFirst with the order ascending (oldest first).
SortedOldestFirst(S) ==
    LET n == Cardinality(S) IN
    { s \in [1..n -> S] :
        /\ \A i, j \in 1..n : i # j => s[i] # s[j]
        /\ \A i, j \in 1..n : i < j => s[i].lastModified <= s[j].lastModified }

\* images.sort((a, b) => b.lastModified - a.lastModified): every order the sort
\* can return; files modified at the same instant keep the order readdir
\* listed them in, which the file system chooses.
SortedNewestFirst(S) ==
    LET n == Cardinality(S) IN
    { s \in [1..n -> S] :
        /\ \A i, j \in 1..n : i # j => s[i] # s[j]
        /\ \A i, j \in 1..n : i < j => s[i].lastModified >= s[j].lastModified }

\* images.getAll: a missing directory is created and the list is empty.
ImagesGetAll(p) ==
    /\ Begin(p, [op |-> "images.getAll"])
    /\ IF ~dirExists
       THEN /\ dirExists' = TRUE
            /\ Respond(p, "images.getAll", "ok", << >>)
       ELSE /\ UNCHANGED dirExists
            /\ \E images \in SortedNewestFirst(ImageFiles(files)) :
                   Respond(p, "images.getAll", "ok", images)
    /\ UNCHANGED <<tv, layout, now, nanoids, loc, files, uuids, issued, sigVars>>

\* z.number().min(1) for page and z.number().min(1).max(100) for limit, at
\* whole numbers.
PaginatedInputs == [page : 1..3, limit : {1, 2, 100}]

\* Math.ceil(a / b) for a >= 0 and b >= 1
Ceil(a, b) == (a + b - 1) \div b

\* array.slice(start, end) for 0 <= start
Slice(s, start, end) == SubSeq(s, start + 1, IF end < Len(s) THEN end ELSE Len(s))

\* Paginate with the slice starting one page too far.
PaginateFromNextPage(sortedImages, page, limit) ==
    LET total == Len(sortedImages)
        startIndex == page * limit
        endIndex == startIndex + limit
    IN  [images |-> Slice(sortedImages, startIndex, endIndex), total |-> total,
         page |-> page, limit |-> limit, totalPages |-> Ceil(total, limit)]

\* total, totalPages, startIndex, endIndex and the slice of getPaginated
Paginate(sortedImages, page, limit) ==
    LET total == Len(sortedImages)
        startIndex == (page - 1) * limit
        endIndex == startIndex + limit
    IN  [images |-> Slice(sortedImages, startIndex, endIndex), total |-> total,
         page |-> page, limit |-> limit, totalPages |-> Ceil(total, limit)]

\* images.getPaginated: a missing directory is created and the page is empty.
ImagesGetPaginated(p) ==
    \E in \in PaginatedInputs :
        /\ Begin(p, [op |-> "images.getPaginated", input |-> in])
        /\ IF ~dirExists
           THEN /\ dirExists' = TRUE
                /\ Respond(p, "images.getPaginated", "ok",
                           << [images |-> << >>, total |-> 0, page |-> in.page,
                               limit |-> in.limit, totalPages |-> 0] >>)
           ELSE /\ UNCHANGED dirExists
                /\ \E sortedImages \in SortedNewestFirst(ImageFiles(files)) :
                       Respond(p, "images.getPaginated", "ok",
                               << Paginate(sortedImages, in.page, in.limit) >>)
        /\ UNCHANGED <<tv, layout, now, nanoids, loc, files, uuids, issued, sigVars>>

\* triggerReloadTimeout = null
NoTimeout == 0

\* ClearTimeout clearing nothing.
ClearTimeoutNothing(armed, handle) == armed

\* clearTimeout(handle), called only when the handle is not null
ClearTimeout(armed, handle) ==
    {IF t.id = handle /\ t.state = "armed" THEN [t EXCEPT !.state = "cleared"] ELSE t :
        t \in armed}

\* setTriggerReload({trigger}): one synchronous handler.
SetTriggerReload(p) ==
    \E trigger \in BOOLEAN :
        /\ Begin(p, [op |-> "setTriggerReload", trigger |-> trigger])
        /\ triggerReload' = trigger
        /\ IF trigger
           THEN /\ timers' = ClearTimeout(timers, triggerReloadTimeout)
                                \cup {[id |-> timerIds + 1, remaining |-> ReloadDelay,
                                       state |-> "armed"]}
                /\ triggerReloadTimeout' = timerIds + 1
                /\ timerIds' = timerIds + 1
                /\ elapsed' = 0
           ELSE /\ timers' = ClearTimeout(timers, triggerReloadTimeout)
                /\ triggerReloadTimeout' = NoTimeout
                /\ UNCHANGED <<timerIds, elapsed>>
        /\ Respond(p, "setTriggerReload", "ok", << trigger >>)
        /\ UNCHANGED <<tv, layout, now, nanoids, loc, imgVars>>

\* getTriggerReload()
GetTriggerReload(p) ==
    /\ Begin(p, [op |-> "getTriggerReload"])
    /\ Respond(p, "getTriggerReload", "ok", << triggerReload >>)
    /\ UNCHANGED <<tv, layout, now, nanoids, loc, imgVars, sigVars>>

\* TimerFires leaving the flag as it is.
TimerFiresKeepingFlag ==
    \E t \in timers :
        /\ t.state = "armed"
        /\ t.remaining = 0
        /\ timers' = (timers \ {t}) \cup {[t EXCEPT !.state = "fired"]}
        /\ triggerReloadTimeout' = NoTimeout
        /\ UNCHANGED <<triggerReload, timerIds, elapsed>>
        /\ UNCHANGED <<tv, layout, now, nanoids, calls, pc, arg, loc, res, imgVars>>

\* TimerFires leaving the handle as it is.
TimerFiresKeepingHandle ==
    \E t \in timers :
        /\ t.state = "armed"
        /\ t.remaining = 0
        /\ timers' = (timers \ {t}) \cup {[t EXCEPT !.state = "fired"]}
        /\ triggerReload' = FALSE
        /\ UNCHANGED <<triggerReloadTimeout, timerIds, elapsed>>
        /\ UNCHANGED <<tv, layout, now, nanoids, calls, pc, arg, loc, res, imgVars>>

\* The callback of setTimeout: the event loop runs it once the delay is over.
TimerFires ==
    \E t \in timers :
        /\ t.state = "armed"
        /\ t.remaining = 0
        /\ timers' = (timers \ {t}) \cup {[t EXCEPT !.state = "fired"]}
        /\ triggerReload' = FALSE
        /\ triggerReloadTimeout' = NoTimeout
        /\ UNCHANGED <<timerIds, elapsed>>
        /\ UNCHANGED <<tv, layout, now, nanoids, calls, pc, arg, loc, res, imgVars>>

\* One step of the delay passes while a timer waits for it.
Advance ==
    /\ \E t \in timers : t.state = "armed" /\ t.remaining > 0
    /\ timers' = {IF t.state = "armed" /\ t.remaining > 0
                  THEN [t EXCEPT !.remaining = @ - 1] ELSE t : t \in timers}
    /\ elapsed' = IF elapsed < ReloadDelay THEN elapsed + 1 ELSE elapsed
    /\ UNCHANGED <<triggerReload, triggerReloadTimeout, timerIds>>
    /\ UNCHANGED <<tv, layout, now, nanoids, calls, pc, arg, loc, res, imgVars>>

\* A millisecond passes.
Tick ==
    /\ Events < MaxEvents
    /\ now' = now + 1
    /\ UNCHANGED <<tv, layout, nanoids, calls, pc, arg, loc, res, imgVars, sigVars>>

\* The database file is new, or was seeded by an earlier run of the server.
Init ==
    /\ tv \in {EmptyTable, SeedRows(1)}
    /\ layout = EmptyTable
    /\ now = 1
    /\ nanoids = 0
    /\ calls = [p \in Procs |-> 0]
    /\ pc = [p \in Procs |-> "idle"]
    /\ arg = [p \in Procs |-> NoArg]
    /\ loc = [p \in Procs |-> NoLoc]
    /\ res = [p \in Procs |-> NoRes]
    /\ files = InitialFiles
    /\ dirExists = TRUE
    /\ uuids = 0
    /\ issued = {}
    /\ triggerReload = FALSE
    /\ triggerReloadTimeout = NoTimeout
    /\ timers = {}
    /\ timerIds = 0
    /\ elapsed = 0

\* The server starting over a database already in use, with the volume either
\* as it was left or freshly mounted (no images directory yet): screen "1"
\* shows an image of the volume and one saved layout refers to the same image.
InitImages ==
    /\ tv = [SeedRows(1) EXCEPT !["1"].imageUrl = ApiImageUrl(Str_noslash)]
    /\ layout = (1 :> [name |-> Str_name, tv1Url |-> ApiImageUrl(Str_noslash),
                       tv2Url |-> Null, tv3Url |-> Null,
                       createdAt |-> 1, updatedAt |-> 1])
    /\ now = 1
    /\ nanoids = 1
    /\ calls = [p \in Procs |-> 0]
    /\ pc = [p \in Procs |-> "idle"]
    /\ arg = [p \in Procs |-> NoArg]
    /\ loc = [p \in Procs |-> NoLoc]
    /\ res = [p \in Procs |-> NoRes]
    /\ dirExists \in BOOLEAN
    /\ files = IF dirExists THEN InitialFiles ELSE FilesOutside(InitialFiles, DataDir)
    /\ uuids = 0
    /\ issued = {}
    /\ triggerReload = FALSE
    /\ triggerReloadTimeout = NoTimeout
    /\ timers = {}
    /\ timerIds = 0
    /\ elapsed = 0

\* The calls both clients make: the page query and the poll.
Reads ==
    \/ \E p \in Procs : GetAllBegin(p)
    \/ \E p \in Procs : Count(p)
    \/ \E p \in Procs : CreateMany(p)
    \/ \E p \in Procs : FindMany(p)
    \/ GetUpdates("viewer")

\* The screen registry under an admin and a polling viewer.
Next ==
    \/ Tick
    \/ Reads
    \/ UpdateOrderBegin("admin")
    \/ TxUpdate("admin")
    \/ TxFail("admin")
    \/ TxCommit("admin")
    \/ UpdateImage("admin", {Null, Str_a_png})
    \/ ResetImage("admin")
    \/ ResetAllBegin("admin")
    \/ UpdateMany("admin")

\* The layout catalog under an admin and a polling viewer.
NextLayout ==
    \/ Tick
    \/ Reads
    \/ UpdateOrderBegin("admin")
    \/ TxUpdate("admin")
    \/ TxFail("admin")
    \/ TxCommit("admin")
    \/ UpdateImage("admin", {Str_https})
    \/ Save("admin")
    \/ RestoreBegin("admin")
    \/ FindUnique("admin")
    \/ LayoutDelete("admin")
    \/ UpdateName("admin")

\* Input validation of the two write paths for image references.
NextValidate ==
    \/ \E p \in Procs : GetAllBegin(p)
    \/ \E p \in Procs : Count(p)
    \/ \E p \in Procs : CreateMany(p)
    \/ \E p \in Procs : FindMany(p)
    \/ UpdateImage("admin", UrlInputs)
    \/ Save("admin")

\* The reload signal: the admin sets it, both clients read it.
NextReload ==
    \/ SetTriggerReload("admin")
    \/ \E p \in Procs : GetTriggerReload(p)
    \/ Advance
    \/ TimerFires

\* The image store under an admin.
NextImages ==
    \/ Tick
    \/ Upload("admin")
    \/ Delete("admin")
    \/ ImagesGetAll("admin")
    \/ ImagesGetPaginated("admin")
    \/ Serve("viewer")

\* Both routers under the admin alone: every procedure of the screen registry
\* and the layout catalog, one call at a time.
NextAdmin ==
    \/ Tick
    \/ GetAllBegin("admin")
    \/ Count("admin")
    \/ CreateMany("admin")
    \/ FindMany("admin")
    \/ GetUpdates("admin")
    \/ UpdateOrderBegin("admin")
    \/ TxUpdate("admin")
    \/ TxFail("admin")
    \/ TxCommit("admin")
    \/ UpdateImage("admin", {Null, Str_a_png})
    \/ ResetImage("admin")
    \/ ResetAllBegin("admin")
    \/ UpdateMany("admin")
    \/ Save("admin")
    \/ RestoreBegin("admin")
    \/ FindUnique("admin")
    \/ LayoutDelete("admin")
    \/ UpdateName("admin")

Spec == Init /\ [][Next]_vars

SpecAdmin == Init /\ [][NextAdmin]_vars

SpecImages == InitImages /\ [][NextImages]_vars

SpecLayout == Init /\ [][NextLayout]_vars

SpecValidate == Init /\ [][NextValidate]_vars

SpecReload == Init /\ [][NextReload]_vars

\* The event loop runs a due callback, and time passes.
SpecReloadFair == SpecReload /\ WF_vars(Advance) /\ WF_vars(TimerFires)

-----------------------------------------------------------------------------
(* Properties of the screen registry and the layout catalog *)

\* The step is one of client p's call.
StepOf(p) ==
    \/ pc'[p] # pc[p]
    \/ loc'[p] # loc[p]
    \/ calls'[p] # calls[p]

\* Client p's last call was the single-statement procedure op, and has returned.
Returned(p, op) == pc[p] = "idle" /\ arg[p].op = op /\ res[p].op = op

Positions(table) == [i \in DOMAIN table |-> table[i].position]
Images(table) == [i \in DOMAIN table |-> table[i].imageUrl]

\* The last position the batch gives id i, or dflt when it gives none.
RECURSIVE BatchPosition(_, _, _)
BatchPosition(updates, i, dflt) ==
    IF updates = << >> THEN dflt
    ELSE BatchPosition(Tail(updates), i,
                       IF Head(updates).id = i THEN Head(updates).position ELSE dflt)

HasUnknownId(updates, table) == \E k \in 1..Len(updates) : updates[k].id \notin DOMAIN table

IsAscending(rows) == \A i, j \in 1..Len(rows) : i < j => rows[i].position <= rows[j].position

\* C1: updateOrder is all-or-nothing.  A step of an updateOrder call changes
\* no position unless it is the commit, and the commit leaves every screen at
\* the position the batch gives it (screens the batch does not name stay).
C1_ReorderAllOrNothing ==
    [][ (arg["admin"].op = "updateOrder" /\ pc["admin"] = "tx" /\ StepOf("admin")) =>
            IF pc'["admin"] = "findMany"
            THEN /\ DOMAIN tv' = DOMAIN tv
                 /\ \A i \in DOMAIN tv :
                        tv'[i].position = BatchPosition(arg["admin"].updates, i, tv[i].position)
            ELSE Positions(tv') = Positions(tv) ]_vars

\* C1 witness: an updateOrder call failed after its first update had run.
C1_MidBatchFailure ==
    /\ Returned("admin", "updateOrder")
    /\ res["admin"].status \in {"NotFound", "StorageFailure"}
    /\ Len(arg["admin"].updates) >= 2
    /\ arg["admin"].updates[1].id \in DOMAIN tv

\* C3: concurrent getAll calls on an empty registry each complete, and leave
\* exactly the rows "1", "2", "3".
C3_ConcurrentSeedSafe ==
    \A p \in Procs :
        (pc[p] = "idle" /\ res[p].op = "getAll") =>
            /\ res[p].status = "ok"
            /\ DOMAIN tv = SeedIds

\* C4: getAll on an empty registry creates exactly the rows "1", "2", "3" at
\* positions 1, 2, 3 with imageUrl "/image{id}.png"; on a registry that has
\* rows, no step of a getAll call changes any row.
C4_SeedOnceOnly ==
    [][ \A p \in Procs :
          (arg[p].op = "getAll" /\ pc[p] \in {"count", "createMany", "findMany"} /\ StepOf(p)) =>
              IF tv = EmptyTable
              THEN \/ tv' = tv
                   \/ /\ DOMAIN tv' = {"1", "2", "3"}
                      /\ tv'["1"].position = 1 /\ tv'["2"].position = 2 /\ tv'["3"].position = 3
                      /\ \A i \in DOMAIN tv' : tv'[i].imageUrl = DefaultImage(i)
              ELSE tv' = tv ]_vars

\* C4 witness: a getAll returned the rows of a registry that had been seeded
\* and then changed.
C4_GetAllAfterMutation ==
    \E p \in Procs :
        /\ pc[p] = "idle" /\ res[p].op = "getAll" /\ res[p].status = "ok"
        /\ DOMAIN tv = SeedIds
        /\ {res[p].rows[k] : k \in 1..Len(res[p].rows)} = Rows(tv)
        /\ \E i \in SeedIds : tv[i].imageUrl # DefaultImage(i) \/ tv[i].position # SeedRows(1)[i].position

\* C5: resetAllImages is one indivisible step: a step of the call that
\* changes any row leaves every screen at its default image.
C5_ResetAllAtomic ==
    [][ (arg["admin"].op = "resetAllImages" /\ pc["admin"] \in {"updateMany", "tx"}
         /\ StepOf("admin") /\ tv' # tv) =>
            \A i \in DOMAIN tv' : tv'[i].imageUrl = DefaultImage(i) ]_vars

\* C6 as claimed: an updateOrder batch with an unknown id returns without a
\* not-found error and has applied the updates of the known ids.
C6_UnknownIdsIgnored ==
    ( /\ Returned("admin", "updateOrder")
      /\ tv # EmptyTable
      /\ HasUnknownId(arg["admin"].updates, tv)
      /\ res["admin"].status # "StorageFailure" ) =>
        /\ res["admin"].status = "ok"
        /\ \A i \in DOMAIN tv :
               tv[i].position = BatchPosition(arg["admin"].updates, i, tv[i].position)

\* C6 amended: the step that ends an updateOrder call creates no row; when
\* the batch names an id that has no row, the call fails and no row changes;
\* when the call succeeds, it returns every row, ascending by position.
C6_UnknownIdFailsBatch ==
    [][ (arg["admin"].op = "updateOrder" /\ pc["admin"] # "idle" /\ pc'["admin"] = "idle") =>
            /\ DOMAIN tv' = DOMAIN tv
            /\ HasUnknownId(arg["admin"].updates, tv) =>
                   /\ res'["admin"].status # "ok"
                   /\ tv' = tv
            /\ res'["admin"].status = "ok" =>
                   /\ IsAscending(res'["admin"].rows)
                   /\ {res'["admin"].rows[k] : k \in 1..Len(res'["admin"].rows)} = Rows(tv') ]_vars

\* C6 witness: a batch naming a known id and then the unknown id was refused,
\* and the known id's update is not in the table.
C6_UnknownIdRejected ==
    /\ Returned("admin", "updateOrder")
    /\ res["admin"].status = "NotFound"
    /\ DOMAIN tv = SeedIds
    /\ \E k \in 1..Len(arg["admin"].updates) :
           /\ arg["admin"].updates[k].id \in DOMAIN tv
           /\ tv[arg["admin"].updates[k].id].position # arg["admin"].updates[k].position

\* C7 as claimed: updateImage accepts an imageUrl exactly when it is null, an
\* absolute URL or a string beginning with "/".
C7_AcceptsExactlyImageRefs ==
    (Returned("admin", "updateImage") /\ arg["admin"].id \in DOMAIN tv) =>
        (res["admin"].status = "ok" <=> IsImageRef(arg["admin"].imageUrl))

\* C7 amended: updateImage accepts an imageUrl exactly when it is null, the
\* empty string, an absolute URL or a string beginning with "/"; a rejected
\* call leaves every row unchanged.
C7_AcceptsImageRefsAndEmpty ==
    [][ (calls'["admin"] # calls["admin"] /\ arg'["admin"].op = "updateImage") =>
            LET url == arg'["admin"].imageUrl IN
            /\ res'["admin"].status # "ValidationError" <=> (IsImageRef(url) \/ url = << >>)
            /\ res'["admin"].status = "ValidationError" => tv' = tv ]_vars

\* C7 witness: "not a url" was rejected for an existing screen, and elsewhere
\* a screen holds an accepted reference.
C7_NotAUrlRejected ==
    /\ Returned("admin", "updateImage")
    /\ arg["admin"].imageUrl = Str_not_a_url
    /\ arg["admin"].id \in DOMAIN tv
    /\ res["admin"].status = "ValidationError"
    /\ \E i \in DOMAIN tv : tv[i].imageUrl \in {Str_a_png, Str_https, Null}

\* C8: a save that returns a layout had a non-empty name and three image
\* references that are null, an absolute URL or a string beginning with "/".
C8_SaveValidatesUrls ==
    Returned("admin", "save") =>
        (res["admin"].status = "ok" =>
            /\ arg["admin"].input.name # << >>
            /\ IsImageRef(arg["admin"].input.tv1Url)
            /\ IsImageRef(arg["admin"].input.tv2Url)
            /\ IsImageRef(arg["admin"].input.tv3Url))

\* C9: the commit of restore(id) leaves screens "1", "2", "3" with the
\* layout's tv1Url, tv2Url, tv3Url (null included) and every position as it was.
C9_RestoreRoundTrip ==
    [][ (arg["admin"].op = "restore" /\ pc["admin"] = "tx" /\ pc'["admin"] = "findMany") =>
            LET l == layout[arg["admin"].id] IN
            /\ tv'["1"].imageUrl = l.tv1Url
            /\ tv'["2"].imageUrl = l.tv2Url
            /\ tv'["3"].imageUrl = l.tv3Url
            /\ Positions(tv') = Positions(tv) ]_vars

\* C9 witness: restore of the layout ("/a.png", "/b.png", null) returned.
C9_Restored ==
    /\ pc["admin"] = "idle" /\ res["admin"].op = "restore" /\ res["admin"].status = "ok"
    /\ Images(tv) = [i \in SeedIds |-> CASE i = "1" -> Str_a_png [] i = "2" -> Str_b_png [] i = "3" -> Null]
    /\ \E k \in 1..Len(res["admin"].rows) :
           res["admin"].rows[k].id = "3" /\ res["admin"].rows[k].imageUrl = Null

\* The statements of the open batch, as (id, field) -> the last value written.
BatchApplied(table, stmts) ==
    \A k \in 1..Len(stmts) :
        (\A j \in (k+1)..Len(stmts) : stmts[j].id # stmts[k].id) =>
            IF stmts[k].field = "position"
            THEN table[stmts[k].id].position = stmts[k].value
            ELSE table[stmts[k].id].imageUrl = stmts[k].value

\* C10: a reader never sees part of an updateOrder or restore batch: a step
\* of such a call that changes the rows readers see applies the whole batch,
\* and a reader's response is the rows as they are at one instant.
C10_NoPartialBatchVisible ==
    [][ /\ (arg["admin"].op \in {"updateOrder", "restore"} /\ pc["admin"] = "tx"
            /\ StepOf("admin") /\ tv' # tv) =>
               BatchApplied(tv', loc["admin"].stmts)
        /\ \A p \in Procs :
               (pc[p] = "findMany" /\ pc'[p] = "idle") =>
                   /\ res'[p].status = "ok"
                   /\ IsAscending(res'[p].rows)
                   /\ {res'[p].rows[k] : k \in 1..Len(res'[p].rows)} = Rows(tv)
        /\ \A p \in Procs :
               (calls'[p] # calls[p] /\ arg'[p].op = "getUpdates") =>
                   /\ res'[p].status = "ok"
                   /\ IsAscending(res'[p].rows)
                   /\ {res'[p].rows[k] : k \in 1..Len(res'[p].rows)} \subseteq Rows(tv) ]_vars

\* C10 witness: a reader is about to read while a restore has run some but
\* not all of its updates.
C10_ReaderDuringBatch ==
    /\ arg["admin"].op = "restore"
    /\ InTx("admin")
    /\ loc["admin"].k < Len(loc["admin"].stmts)
    /\ loc["admin"].buf # tv
    /\ pc["viewer"] = "findMany"

\* The step ends a call of client p: the response is in res'[p], the call's
\* input in arg'[p].
CallEnds(p) == pc'[p] = "idle" /\ (calls'[p] # calls[p] \/ pc[p] # "idle")

\* The rows of a response, as a set.
RowSet(rows) == {rows[k] : k \in 1..Len(rows)}

\* C11 as claimed: whatever procedure is the first one called on a fresh
\* store, the registry holds screens "1", "2", "3" when it has returned.
C11_SeededOnFirstAccess ==
    ( /\ pc["admin"] = "idle"
      /\ calls["admin"] = 1
      /\ res["admin"].op \in {"updateImage", "resetImage", "resetAllImages",
                               "updateOrder", "getUpdates", "restore"} ) =>
        DOMAIN tv = SeedIds

\* C11 amended: only getAll seeds.  No step of any other call adds a row; on
\* an empty registry updateImage, resetImage, resetAllImages and restore fail
\* with a not-found error, and updateOrder and getUpdates return no row.
C11_OnlyGetAllSeeds ==
    [][ /\ (StepOf("admin") /\ arg'["admin"].op # "getAll") => DOMAIN tv' = DOMAIN tv
        /\ (CallEnds("admin") /\ tv = EmptyTable /\ arg'["admin"].op # "getAll") =>
               /\ tv' = EmptyTable
               /\ arg'["admin"].op \in {"updateImage", "resetImage", "resetAllImages", "restore"} =>
                      res'["admin"].status = "NotFound"
               /\ arg'["admin"].op \in {"updateOrder", "getUpdates"} =>
                      /\ res'["admin"].rows = << >>
                      /\ res'["admin"].status = "ok" <=>
                             (arg'["admin"].op = "getUpdates" \/ arg'["admin"].updates = << >>) ]_vars

\* C11 witness: resetAllImages was the first call on a fresh store; it failed
\* and the registry is still empty.
C11_ResetAllOnFreshStore ==
    /\ Returned("admin", "resetAllImages")
    /\ calls["admin"] = 1
    /\ res["admin"].status = "NotFound"
    /\ tv = EmptyTable

\* C12: updateImage and resetImage on an id that has no row fail with a
\* not-found error (updateImage after its input has passed validation),
\* create no row and change no row.
C12_UnknownIdNotFound ==
    [][ ( /\ CallEnds("admin")
          /\ arg'["admin"].op \in {"updateImage", "resetImage"}
          /\ arg'["admin"].id \notin DOMAIN tv ) =>
            /\ tv' = tv
            /\ res'["admin"].status # "ok"
            /\ (arg'["admin"].op = "resetImage" \/ UpdateImageUrlAccepts(arg'["admin"].imageUrl)) =>
                   res'["admin"].status = "NotFound" ]_vars

\* C12 witness: updateImage of the unknown id with "/a.png" was refused on a
\* registry that holds the three screens.
C12_SetImageOnUnknownId ==
    /\ Returned("admin", "updateImage")
    /\ arg["admin"].id = UnknownId
    /\ arg["admin"].imageUrl = Str_a_png
    /\ res["admin"].status = "NotFound"
    /\ DOMAIN tv = SeedIds

\* The ids of the rows the admin's step writes for others to see: the row of
\* a successful updateImage or resetImage, every row when updateMany touches
\* them, the rows a committing transaction has updated.
MutatedIds ==
    IF CallEnds("admin") /\ arg'["admin"].op \in {"updateImage", "resetImage"}
       /\ res'["admin"].status = "ok"
    THEN {arg'["admin"].id}
    ELSE IF pc["admin"] = "updateMany" /\ tv' # tv
    THEN DOMAIN tv
    ELSE IF pc["admin"] = "tx" /\ pc'["admin"] = "findMany"
    THEN {loc["admin"].stmts[k].id : k \in 1..Len(loc["admin"].stmts)}
    ELSE {}

\* C13: every update of a screen row stamps the row's updatedAt with the time
\* the update runs (inside a transaction: the time its statement runs, which
\* the commit publishes), so the row is among those updated after any earlier
\* time; rows the update does not name keep all their fields.
C13_MutationStampsRow ==
    [][ StepOf("admin") =>
          /\ (pc["admin"] = "tx" /\ pc'["admin"] = "tx") =>
                 LET base == IF loc["admin"].k = 0 THEN tv ELSE loc["admin"].buf
                     stmt == loc["admin"].stmts[loc["admin"].k + 1]
                     working == loc'["admin"].buf
                 IN  /\ working[stmt.id].updatedAt = now
                     /\ \A i \in DOMAIN base \ {stmt.id} : working[i] = base[i]
          /\ \A i \in DOMAIN tv \cap DOMAIN tv' :
                 IF i \in MutatedIds
                 THEN /\ tv'[i].updatedAt =
                            IF pc["admin"] = "tx" THEN loc["admin"].buf[i].updatedAt ELSE now
                      /\ tv'[i].updatedAt >= tv[i].updatedAt
                      /\ \A T \in Epoch..(tv'[i].updatedAt - 1) :
                             \E r \in UpdatedAfter(tv', T) : r.id = i
                 ELSE tv'[i] = tv[i] ]_vars

\* C13 witness: an updateImage ran after the clock had advanced: its row
\* carries the new time, another row still carries an older one.
C13_StampedLaterThanOthers ==
    /\ Returned("admin", "updateImage")
    /\ res["admin"].status = "ok"
    /\ now > 1
    /\ tv[arg["admin"].id].updatedAt = now
    /\ \E j \in DOMAIN tv : tv[j].updatedAt < now

\* The rows getAll returns when it runs on the table at time t: it seeds an
\* empty table first.
ListAll(table, t) == IF table = EmptyTable THEN Rows(SeedRows(t)) ELSE Rows(table)

\* C14: in every reachable state and for all timestamps T <= T2, the rows
\* getUpdates(T) selects are among the rows getAll returns, and include the
\* rows getUpdates(T2) selects.
C14_ChangeFeedMonotone ==
    \A T, T2 \in Epoch..(now + 1) :
        T <= T2 =>
            /\ UpdatedAfter(tv, T) \subseteq ListAll(tv, now)
            /\ UpdatedAfter(tv, T2) \subseteq UpdatedAfter(tv, T)

\* C14 witness: the viewer polled with a timestamp that some rows are newer
\* than and some are not, and a later timestamp selects fewer rows.
C14_PollSelectsSomeRows ==
    /\ Returned("viewer", "getUpdates")
    /\ arg["viewer"].given
    /\ RowSet(res["viewer"].rows) = UpdatedAfter(tv, arg["viewer"].at)
    /\ res["viewer"].rows # << >>
    /\ RowSet(res["viewer"].rows) # Rows(tv)
    /\ UpdatedAfter(tv, arg["viewer"].at + 1) # UpdatedAfter(tv, arg["viewer"].at)

\* C15: getUpdates(T) returns exactly the rows whose updatedAt is strictly
\* greater than T, each once, ascending by position; called without a
\* timestamp it uses the epoch and returns every row.
C15_ChangesSinceExact ==
    [][ \A p \in Procs :
          (calls'[p] # calls[p] /\ arg'[p].op = "getUpdates") =>
              LET T == IF arg'[p].given THEN arg'[p].at ELSE 0
                  rows == res'[p].rows
              IN  /\ res'[p].status = "ok"
                  /\ \A i \in DOMAIN tv :
                         (\E k \in 1..Len(rows) : rows[k].id = i) <=> tv[i].updatedAt > T
                  /\ \A k \in 1..Len(rows) : rows[k] \in Rows(tv)
                  /\ \A j, k \in 1..Len(rows) : j < k =>
                         rows[j].id # rows[k].id /\ rows[j].position <= rows[k].position
                  /\ ~arg'[p].given => RowSet(rows) = Rows(tv) ]_vars

\* C15 witness: the viewer polled with timestamp T; a row updated at T was
\* left out and a row updated after T was returned.
C15_RowAtCutoffExcluded ==
    /\ Returned("viewer", "getUpdates")
    /\ arg["viewer"].given
    /\ \E i \in DOMAIN tv :
           /\ tv[i].updatedAt = arg["viewer"].at
           /\ \A k \in 1..Len(res["viewer"].rows) : res["viewer"].rows[k].id # i
    /\ \E k \in 1..Len(res["viewer"].rows) :
           /\ res["viewer"].rows[k] \in Rows(tv)
           /\ res["viewer"].rows[k].updatedAt > arg["viewer"].at

\* C16: a successful resetImage(id) leaves that screen's imageUrl at
\* "/image{id}.png" whatever it was (null included), changes no other image
\* and, run on a screen already at its default, changes no image at all; the
\* commit of resetAllImages leaves every screen at "/image{id}.png" for its
\* own id; no step of either call changes a position.
C16_ResetDeterministic ==
    [][ LET want(i) == << "/", "i", "m", "a", "g", "e", i, ".", "p", "n", "g" >> IN
        /\ (CallEnds("admin") /\ arg'["admin"].op = "resetImage" /\ res'["admin"].status = "ok") =>
               LET id == arg'["admin"].id IN
               /\ DOMAIN tv' = DOMAIN tv
               /\ tv'[id].imageUrl = want(id)
               /\ \A i \in DOMAIN tv \ {id} : tv'[i].imageUrl = tv[i].imageUrl
               /\ tv[id].imageUrl = want(id) => Images(tv') = Images(tv)
               /\ Positions(tv') = Positions(tv)
        /\ (arg["admin"].op = "resetAllImages" /\ pc["admin"] \in {"updateMany", "tx"}
            /\ StepOf("admin")) =>
               /\ Positions(tv') = Positions(tv)
               /\ pc'["admin"] = "findMany" =>
                      /\ DOMAIN tv' = SeedIds
                      /\ \A i \in DOMAIN tv' : tv'[i].imageUrl = want(i) ]_vars

\* C16 witness: resetAllImages has run its three updates and is about to
\* commit them over a registry in which a screen's imageUrl is null.
C16_ResetAllOverNull ==
    /\ arg["admin"].op = "resetAllImages"
    /\ pc["admin"] = "tx"
    /\ loc["admin"].k = 3
    /\ \E i \in DOMAIN tv : tv[i].imageUrl = Null
    /\ \A i \in DOMAIN tv : loc["admin"].buf[i].imageUrl = DefaultImage(i)

\* The batch [("1",3), ("2",1), ("3",2)].
Rotation ==
    << [id |-> "1", position |-> 3], [id |-> "2", position |-> 1], [id |-> "3", position |-> 2] >>

\* C17: the commit of updateOrder gives every screen the position the batch
\* gives it (for the batch [("1",3), ("2",1), ("3",2)]: "1" at 3, "2" at 1,
\* "3" at 2) and no step of the call changes an imageUrl; the call returns
\* every row once, ascending by position, and so does a following getAll: on
\* the screens [("1",3), ("2",1), ("3",2)] both return the ids "2", "3", "1"
\* at positions 1, 2, 3.
C17_ReorderReturnsSorted ==
    [][ /\ (arg["admin"].op = "updateOrder" /\ pc["admin"] = "tx" /\ StepOf("admin")) =>
               /\ Images(tv') = Images(tv)
               /\ (pc'["admin"] = "findMany" /\ arg["admin"].updates = Rotation) =>
                      Positions(tv') = [i \in {"1", "2", "3"} |->
                                           CASE i = "1" -> 3 [] i = "2" -> 1 [] i = "3" -> 2]
        /\ \A p \in Procs :
               (pc[p] = "findMany" /\ pc'[p] = "idle" /\ arg[p].op \in {"updateOrder", "getAll"}) =>
                   LET rows == res'[p].rows IN
                   /\ res'[p].status = "ok"
                   /\ tv' = tv
                   /\ RowSet(rows) = Rows(tv)
                   /\ Len(rows) = Cardinality(DOMAIN tv)
                   /\ \A j, k \in 1..Len(rows) : j < k => rows[j].position <= rows[k].position
                   /\ Positions(tv) = [i \in {"1", "2", "3"} |->
                                          CASE i = "1" -> 3 [] i = "2" -> 1 [] i = "3" -> 2] =>
                          /\ [k \in 1..3 |-> rows[k].id] = << "2", "3", "1" >>
                          /\ [k \in 1..3 |-> rows[k].position] = << 1, 2, 3 >> ]_vars

\* C17 witness: updateOrder([("1",3), ("2",1), ("3",2)]) returned the ids
\* "2", "3", "1", and the viewer's getAll after it returned the same list.
C17_RotationReturned ==
    /\ Returned("admin", "updateOrder")
    /\ arg["admin"].updates = Rotation
    /\ res["admin"].status = "ok"
    /\ [k \in 1..Len(res["admin"].rows) |-> res["admin"].rows[k].id] = << "2", "3", "1" >>
    /\ pc["viewer"] = "idle"
    /\ res["viewer"].op = "getAll"
    /\ res["viewer"].rows = res["admin"].rows

\* C18: no step of a restore call, and no step of a screen registry call,
\* changes the layout table: no layout is added or removed and every field
\* of every layout (name, tv1Url, tv2Url, tv3Url, createdAt, updatedAt) stays.
C18_LayoutIsSnapshot ==
    [][ ( /\ StepOf("admin")
          /\ arg'["admin"].op \in {"restore", "updateImage", "resetImage", "resetAllImages",
                                     "updateOrder", "getAll", "getUpdates"} ) =>
            /\ DOMAIN layout' = DOMAIN layout
            /\ \A l \in DOMAIN layout :
                   /\ layout'[l].name = layout[l].name
                   /\ layout'[l].tv1Url = layout[l].tv1Url
                   /\ layout'[l].tv2Url = layout[l].tv2Url
                   /\ layout'[l].tv3Url = layout[l].tv3Url
                   /\ layout'[l].createdAt = layout[l].createdAt
                   /\ layout'[l].updatedAt = layout[l].updatedAt ]_vars

\* C18 witness: a layout saved earlier was restored after the clock had
\* advanced: the screens carry the later time, the layout its time of saving.
C18_RestoredLater ==
    /\ Returned("admin", "restore")
    /\ res["admin"].status = "ok"
    /\ arg["admin"].id \in DOMAIN layout
    /\ layout[arg["admin"].id].updatedAt < now
    /\ layout[arg["admin"].id].createdAt = layout[arg["admin"].id].updatedAt
    /\ \A i \in DOMAIN tv : tv[i].updatedAt > layout[arg["admin"].id].updatedAt

\* C19: no step of a restore, delete or updateName call whose layout id has
\* no row changes a screen or a layout, and the call ends with a not-found
\* error (updateName with an empty name: with a validation error); an
\* updateName with an empty name changes nothing; a successful updateName
\* changes the name of its layout, and no other layout, no tvNUrl, no screen.
C19_UnknownLayoutNotFound ==
    [][ (StepOf("admin") /\ arg'["admin"].op \in {"restore", "delete", "updateName"}) =>
          LET a == arg'["admin"]
              r == res'["admin"]
          IN  /\ a.id \notin DOMAIN layout =>
                     /\ tv' = tv
                     /\ layout' = layout
                     /\ CallEnds("admin") =>
                            r.status = IF a.op = "updateName" /\ a.name = << >>
                                       THEN "ValidationError" ELSE "NotFound"
              /\ (CallEnds("admin") /\ a.op = "updateName") =>
                     /\ tv' = tv
                     /\ a.name = << >> => (r.status = "ValidationError" /\ layout' = layout)
                     /\ r.status = "ok" =>
                            /\ DOMAIN layout' = DOMAIN layout
                            /\ layout'[a.id].name = a.name
                            /\ layout'[a.id].tv1Url = layout[a.id].tv1Url
                            /\ layout'[a.id].tv2Url = layout[a.id].tv2Url
                            /\ layout'[a.id].tv3Url = layout[a.id].tv3Url
                            /\ layout'[a.id].createdAt = layout[a.id].createdAt
                            /\ \A l \in DOMAIN layout \ {a.id} : layout'[l] = layout[l] ]_vars

\* C19 witness: a layout was saved and deleted, and a restore of its id was
\* then refused with the screens in place.
C19_RestoreOfDeletedLayout ==
    /\ Returned("admin", "restore")
    /\ res["admin"].status = "NotFound"
    /\ arg["admin"].id <= nanoids
    /\ arg["admin"].id \notin DOMAIN layout
    /\ DOMAIN tv = SeedIds

-----------------------------------------------------------------------------
(* Properties of the image store *)

\* The path lies strictly inside the image directory: below it, component by
\* component.
StrictlyInside(path) ==
    LET root == NormalizeComponents(Components(DataDir), << >>)
        comps == NormalizeComponents(Components(path), << >>)
    IN  /\ Len(comps) > Len(root)
        /\ SubSeq(comps, 1, Len(root)) = root

\* C2: delete never removes a file outside the image directory: a call whose
\* name does not resolve strictly inside it fails and unlinks nothing, and no
\* call unlinks a file that is not strictly inside it.
C2_DeleteStaysInsideRoot ==
    [][ (calls'["admin"] # calls["admin"] /\ arg'["admin"].op = "images.delete") =>
            /\ \A f \in DOMAIN files \ DOMAIN files' : StrictlyInside(f)
            /\ ~StrictlyInside(PathResolve(DataDir \o << "/" >> \o arg'["admin"].name)) =>
                   /\ res'["admin"].status # "ok"
                   /\ files' = files ]_vars

\* The path of a stored name in the image directory.
StoredPath(name) == DataDir \o << "/" >> \o name

\* C20: an upload that succeeds returns a name no earlier upload returned
\* (whether or not that file has been deleted since), and creates a new file
\* without replacing or changing an existing one; a delete that succeeds
\* removes one file only, and leaves every other uploaded file in place and
\* answered as before; when the deleted file and another came from uploads
\* of the same original filename, the other is still served (status 200).
C20_StoredNamesNeverReused ==
    [][ (calls'["admin"] # calls["admin"] /\ res'["admin"].status = "ok") =>
          /\ arg'["admin"].op = "images.upload" =>
                 LET name == res'["admin"].rows[1] IN
                 /\ \A e \in issued : e.name # name
                 /\ StoredPath(name) \notin DOMAIN files
                 /\ DOMAIN files' = DOMAIN files \cup {StoredPath(name)}
                 /\ \A f \in DOMAIN files : files'[f] = files[f]
          /\ arg'["admin"].op = "images.delete" =>
                 /\ Cardinality(DOMAIN files \ DOMAIN files') = 1
                 /\ \A f \in DOMAIN files' : f \in DOMAIN files /\ files'[f] = files[f]
                 /\ \A e \in issued :
                        (e.name # arg'["admin"].name /\ StoredPath(e.name) \in DOMAIN files) =>
                            /\ StoredPath(e.name) \in DOMAIN files'
                            /\ ServeStatus(e.name, files') = ServeStatus(e.name, files)
                 /\ \A d, e \in issued :
                        ( /\ d.name = arg'["admin"].name
                          /\ e.name # d.name
                          /\ e.originalName = d.originalName
                          /\ StoredPath(e.name) \in DOMAIN files ) =>
                            ServeStatus(e.name, files') = "200" ]_vars

\* C20 witness: two uploads of the same original filename returned two
\* names; the file of one has been deleted, the other is present and served.
C20_TwinSurvivesDelete ==
    /\ Returned("admin", "images.delete")
    /\ res["admin"].status = "ok"
    /\ \E d, e \in issued :
           /\ d.name = arg["admin"].name
           /\ e.name # d.name
           /\ e.originalName = d.originalName
           /\ StoredPath(d.name) \notin DOMAIN files
           /\ StoredPath(e.name) \in DOMAIN files
           /\ ServeStatus(e.name, files) = "200"

\* C21: an upload whose mimeType is not in the allow-list fails with the
\* error kind InvalidType and writes no file.
C21_InvalidTypeReported ==
    [][ ( /\ calls'["admin"] # calls["admin"]
          /\ arg'["admin"].op = "images.upload"
          /\ arg'["admin"].input.mimeType \notin
                 {"image/jpeg", "image/jpg", "image/png", "image/gif", "image/webp",
                  "image/svg+xml", "image/bmp"} ) =>
            /\ res'["admin"].status = "InvalidType"
            /\ files' = files ]_vars

\* The extensions the claims name: jpg, jpeg, png, gif, webp, svg, bmp.
SupportedExtensions ==
    { << ".", "j", "p", "g" >>, << ".", "j", "p", "e", "g" >>, << ".", "p", "n", "g" >>,
      << ".", "g", "i", "f" >>, << ".", "w", "e", "b", "p" >>, << ".", "s", "v", "g" >>,
      << ".", "b", "m", "p" >> }

\* The MIME type the fixed table gives a lower-cased extension.
MimeOf(ext) ==
    CASE ext \in {<< ".", "j", "p", "g" >>, << ".", "j", "p", "e", "g" >>} -> "image/jpeg"
      [] ext = << ".", "p", "n", "g" >> -> "image/png"
      [] ext = << ".", "g", "i", "f" >> -> "image/gif"
      [] ext = << ".", "w", "e", "b", "p" >> -> "image/webp"
      [] ext = << ".", "s", "v", "g" >> -> "image/svg+xml"
      [] ext = << ".", "b", "m", "p" >> -> "image/bmp"

\* C22: the serving route answers by the first check that fails, in this
\* order: a name containing "..", "/" or "\" is refused as an invalid
\* filename (400); else a name without a supported image extension is
\* refused as not an image (400); else a missing file is not found (404);
\* else the file is returned (200) with the MIME type of its extension and
\* its modification time.  The route changes no file.
C22_ServeChecksInOrder ==
    [][ \A p \in Procs :
          (calls'[p] # calls[p] /\ arg'[p].op = "serve") =>
              LET f == arg'[p].filename
                  r == res'[p]
                  traversal == \E i \in 1..Len(f) :
                                   \/ f[i] \in {"/", "\\"}
                                   \/ (i < Len(f) /\ f[i] = "." /\ f[i + 1] = ".")
                  ext == ToLowerCase(Extname(f))
              IN  /\ files' = files
                  /\ IF traversal
                     THEN r.status = "400" /\ r.rows = << "Invalid filename" >>
                     ELSE IF ext \notin SupportedExtensions
                     THEN r.status = "400" /\ r.rows = << "File is not a valid image" >>
                     ELSE IF StoredPath(f) \notin DOMAIN files
                     THEN r.status = "404" /\ r.rows = << "Image not found" >>
                     ELSE /\ r.status = "200"
                          /\ r.rows = << "fileBuffer", MimeOf(ext), files[StoredPath(f)].mtime >> ]_vars

\* C22 witness: an uploaded file with an upper-case extension was served as
\* image/png.
C22_UploadServed ==
    /\ Returned("viewer", "serve")
    /\ res["viewer"].status = "200"
    /\ arg["viewer"].filename = Uuid(1) \o << ".", "P", "N", "G" >>
    /\ res["viewer"].rows[2] = "image/png"
    /\ \E e \in issued : e.name = arg["viewer"].filename

\* A valid image name: one path component with a supported extension.
ValidImageName(name) ==
    /\ ~Includes(name, << "/" >>)
    /\ ~Includes(name, << ".", "." >>)
    /\ ToLowerCase(Extname(name)) \in SupportedExtensions

\* C23: deleting a valid image name whose file does not exist fails with
\* NotFound and removes nothing; deleting an existing one removes exactly that
\* file, after which serving it is NotFound and the listing omits it, and no
\* screen's imageUrl and no layout changes.
C23_DeleteExactlyOne ==
    [][ ( /\ calls'["admin"] # calls["admin"]
          /\ arg'["admin"].op = "images.delete"
          /\ ValidImageName(arg'["admin"].name) ) =>
            LET name == arg'["admin"].name IN
            IF StoredPath(name) \notin DOMAIN files
            THEN /\ res'["admin"].status = "NotFound"
                 /\ files' = files
            ELSE /\ res'["admin"].status = "ok"
                 /\ DOMAIN files' = DOMAIN files \ {StoredPath(name)}
                 /\ \A f \in DOMAIN files' : files'[f] = files[f]
                 /\ ServeStatus(name, files') = "404"
                 /\ \A i \in ImageFiles(files') : i.name # name
                 /\ tv' = tv
                 /\ layout' = layout ]_vars

\* The pages 1..n of an ordering, one after the other.
RECURSIVE PagesUpTo(_, _, _)
PagesUpTo(sortedImages, n, limit) ==
    IF n = 0 THEN << >>
    ELSE PagesUpTo(sortedImages, n - 1, limit) \o Paginate(sortedImages, n, limit).images

\* C24: listPaginated(page, limit) returns as total the number of image files,
\* as totalPages the least n with n * limit >= total, and as items the elements
\* [(page-1)*limit, page*limit) of a newest-first ordering of the listing; a
\* page beyond totalPages is empty, and the pages 1..totalPages of an ordering,
\* one after the other, are that ordering.
C24_PagesTileListing ==
    [][ ( /\ calls'["admin"] # calls["admin"]
          /\ arg'["admin"].op = "images.getPaginated" ) =>
            LET page == arg'["admin"].input.page
                limit == arg'["admin"].input.limit
                r == res'["admin"].rows[1]
                all == {i \in DOMAIN files :
                          /\ StartsWith(i, DataDir \o << "/" >>)
                          /\ ~Includes(Drop(i, Len(DataDir) + 1), << "/" >>)
                          /\ ToLowerCase(Extname(i)) \in SupportedExtensions}
                total == Cardinality(all)
            IN  /\ res'["admin"].status = "ok"
                /\ r.total = total
                /\ r.totalPages * limit >= total
                /\ (r.totalPages - 1) * limit < total
                /\ page > r.totalPages => r.images = << >>
                /\ \E s \in [1..total -> all] :
                      /\ \A i, j \in 1..total : i < j =>
                            s[i] # s[j] /\ files[s[i]].mtime >= files[s[j]].mtime
                      /\ LET lo == (page - 1) * limit
                             hi == IF page * limit < total THEN page * limit ELSE total
                         IN  /\ Len(r.images) = IF hi > lo THEN hi - lo ELSE 0
                             /\ \A k \in 1..Len(r.images) :
                                   /\ StoredPath(r.images[k].name) = s[lo + k]
                                   /\ r.images[k].lastModified = files[s[lo + k]].mtime
                /\ \A s \in SortedNewestFirst(ImageFiles(files')) :
                      PagesUpTo(s, Ceil(Len(s), limit), limit) = s ]_vars

\* The admin has been returned the second page of a listing of three images,
\* two to a page: the oldest image alone.
C24_SecondPageServed ==
    /\ Returned("admin", "images.getPaginated")
    /\ arg["admin"].input = [page |-> 2, limit |-> 2]
    /\ res["admin"].rows[1].total = 3
    /\ res["admin"].rows[1].totalPages = 2
    /\ Len(res["admin"].rows[1].images) = 1
    /\ res["admin"].rows[1].images[1].name = Str_noslash

\* C25: the image listing succeeds and returns, once each and newest-modified
\* first, exactly the files of the volume whose extension is, in any case, one
\* of the supported ones; when the directory does not exist it creates it and
\* returns the empty list.
C25_ListingExactAndSorted ==
    [][ ( /\ calls'["admin"] # calls["admin"]
          /\ arg'["admin"].op = "images.getAll" ) =>
            LET rows == res'["admin"].rows
                all == {i \in DOMAIN files :
                          /\ StartsWith(i, DataDir \o << "/" >>)
                          /\ ~Includes(Drop(i, Len(DataDir) + 1), << "/" >>)
                          /\ ToLowerCase(Extname(i)) \in SupportedExtensions}
            IN  /\ res'["admin"].status = "ok"
                /\ dirExists'
                /\ files' = files
                /\ ~dirExists => rows = << >>
                /\ {StoredPath(rows[k].name) : k \in 1..Len(rows)} = all
                /\ Len(rows) = Cardinality(all)
                /\ \A k \in 1..Len(rows) :
                      rows[k].lastModified = files[StoredPath(rows[k].name)].mtime
                /\ \A j, k \in 1..Len(rows) :
                      j < k => rows[j].lastModified >= rows[k].lastModified ]_vars

\* The admin has been returned a listing of two images: an upload stored under
\* an upper-case extension first, the older a.png second.
C25_NewerUploadListedFirst ==
    /\ Returned("admin", "images.getAll")
    /\ Len(res["admin"].rows) = 2
    /\ res["admin"].rows[1].name = Uuid(1) \o << ".", "P", "N", "G" >>
    /\ res["admin"].rows[1].lastModified > res["admin"].rows[2].lastModified
    /\ res["admin"].rows[2].name = Str_noslash

\* The timers that are armed: created, neither cleared nor fired.
Pending == {t \in timers : t.state = "armed"}

\* C26: setting the flag to true again before the delay is over cancels the
\* earlier timer; at most one timer is ever pending; and the flag stays true
\* until the full delay has passed since the most recent set-true, unless it
\* is set to false.
C26_LastSetWins ==
    [][ /\ Cardinality({t \in timers' : t.state = "armed"}) <= 1
        /\ ( /\ calls'["admin"] # calls["admin"]
             /\ arg'["admin"].op = "setTriggerReload"
             /\ arg'["admin"].trigger ) =>
               /\ triggerReload'
               /\ \A t \in Pending : \E u \in timers' : u.id = t.id /\ u.state = "cleared"
               /\ \E u \in timers' :
                     /\ u.id \notin {t.id : t \in timers}
                     /\ u.state = "armed"
                     /\ u.remaining = ReloadDelay
               /\ elapsed' = 0
        /\ (triggerReload /\ ~triggerReload') =>
               \/ /\ calls'["admin"] # calls["admin"]
                  /\ arg'["admin"].op = "setTriggerReload"
                  /\ ~arg'["admin"].trigger
               \/ elapsed = ReloadDelay ]_vars

\* The flag was set again half-way through the delay: the first timer was
\* cancelled with half of its delay to go, and the flag is still true a full
\* delay after the second set.
C26_ResetHalfWay ==
    /\ triggerReload
    /\ elapsed = ReloadDelay
    /\ \E t \in timers : t.state = "cleared" /\ t.remaining = ReloadDelay - 1
    /\ \E t \in timers : t.state = "armed" /\ t.remaining = 0

\* C27: once the flag is true it eventually reverts to false; the flag becomes
\* true only by setTriggerReload(true), and getTriggerReload returns the flag.
C27_FlagEventuallyReverts ==
    /\ triggerReload ~> ~triggerReload
    /\ [][ /\ (~triggerReload /\ triggerReload') =>
                /\ calls'["admin"] # calls["admin"]
                /\ arg'["admin"].op = "setTriggerReload"
                /\ arg'["admin"].trigger
           /\ \A p \in Procs :
                (calls'[p] # calls[p] /\ arg'[p].op = "getTriggerReload") =>
                    res'[p].rows = << triggerReload >> ]_vars

\* The viewer has been told false after the timer reverted the flag the admin
\* had set.
C27_ViewerToldFalse ==
    /\ Returned("viewer", "getTriggerReload")
    /\ res["viewer"].rows = << FALSE >>
    /\ Returned("admin", "setTriggerReload")
    /\ arg["admin"].trigger
    /\ \E t \in timers : t.state = "fired"

\* C30: the flag is true exactly when a revert timer is pending.
C30_FlagIffTimerPending ==
    /\ triggerReload <=> triggerReloadTimeout # NoTimeout
    /\ triggerReload <=> Pending # {}
    /\ \A t \in Pending : t.id = triggerReloadTimeout

\* The timer has fired after the admin set the flag: flag and handle are both
\* back to their initial values.
C30_RevertedByTimer ==
    /\ Returned("admin", "setTriggerReload")
    /\ arg["admin"].trigger
    /\ calls["admin"] = 1
    /\ elapsed = ReloadDelay
    /\ ~triggerReload
    /\ triggerReloadTimeout = NoTimeout
    /\ \E t \in timers : t.state = "fired"

\* C28: every screen's imageUrl is null, a valid absolute URL, or a string
\* beginning with "/".
C28_ScreensHoldImageRefs == \A i \in DOMAIN tv : IsImageRef(tv[i].imageUrl)

\* C29: every file a successful upload has stored, while it exists, is in
\* the listing, is served with status 200 and is accepted by delete.
C29_UploadsAreManageable ==
    \A e \in issued :
        StoredPath(e.name) \in DOMAIN files =>
            /\ \E i \in ImageFiles(files) : i.name = e.name
            /\ ServeStatus(e.name, files) = "200"
            /\ PathAllowed(PathResolve(PathJoin(DataDir, e.name)), PathResolve(DataDir))
            /\ isImageFile(e.name)
            /\ PathJoin(DataDir, e.name) \in DOMAIN files

=============================================================================
